---- MODULE Spec2Model ----
\* Model of the assertion helpers of package assert (src/assert.go).
\* Every action is one call of one check on a fresh tester (tt() of the
\* package's tests); the state records the call's inputs, its result and
\* everything the call did to the tester.
EXTENDS Integers, Sequences, FiniteSets, TLC

VARIABLES op, in, ret, escaped, t, log, reported, isNilOn, lenOn

vars == <<op, in, ret, escaped, t, log, reported, isNilOn, lenOn>>

\* ---------------------------------------------------------------- bounds
MaxInt == 1
MaxLen == 2
MaxAddr == 3

\* the float64 value standing for NaN: a number outside the ones in use
NaN == MaxInt + 1

\* ------------------------------------------------- operands (interface{})
\* An operand is what reflect.ValueOf sees: the untyped nil (Kind Invalid)
\* or a value of a concrete type. ValueOf unwraps interfaces, so a top-level
\* operand never has Kind Interface.
Types == {"int", "myint", "float64", "string", "aType", "[2]int", "[1]float64",
          "*int", "*myint", "*aType", "[]int", "[]float64", "map[int]int",
          "chan int", "func()"}

KindOf(ty) ==
    CASE ty \in {"int", "myint"} -> "Int"
      [] ty = "float64" -> "Float64"
      [] ty = "string" -> "String"
      [] ty = "aType" -> "Struct"
      [] ty \in {"[2]int", "[1]float64"} -> "Array"
      [] ty \in {"*int", "*myint", "*aType"} -> "Ptr"
      [] ty \in {"[]int", "[]float64"} -> "Slice"
      [] ty = "map[int]int" -> "Map"
      [] ty = "chan int" -> "Chan"
      [] ty = "func()" -> "Func"

FloatTypes == {"float64", "[1]float64", "[]float64"}

Val(ty, isnil, addr, data) ==
    [addr |-> addr, data |-> data, isnil |-> isnil, kind |-> KindOf(ty), type |-> ty]

UntypedNil == [addr |-> 0, data |-> <<>>, isnil |-> FALSE, kind |-> "Invalid", type |-> ""]

Addrs == 1..MaxAddr

\* memory behind the references: the same address always holds the same content
IntMem(a) == a % 2
FloatMem(a) == IF a % 2 = 1 THEN NaN ELSE 0

SeqsUpTo(S, n) == UNION {[1..k -> S] : k \in 0..n}

Scalars ==
    {Val(ty, FALSE, 0, <<n>>) : ty \in {"int", "myint"}, n \in 0..MaxInt}
    \cup {Val("float64", FALSE, 0, <<x>>) : x \in {0, NaN}}
    \cup {Val("string", FALSE, 0, s) : s \in SeqsUpTo(1..2, MaxLen)}
    \cup {Val("aType", FALSE, 0, <<>>)}
    \cup {Val("[2]int", FALSE, 0, s) : s \in [1..2 -> 0..MaxInt]}
    \cup {Val("[1]float64", FALSE, 0, <<x>>) : x \in {0, NaN}}

TypedNils ==
    {Val(ty, TRUE, 0, <<>>) : ty \in {"*int", "*myint", "*aType", "[]int", "[]float64",
                                      "map[int]int", "chan int", "func()"}}

References ==
    {Val(ty, FALSE, a, <<IntMem(a)>>) : ty \in {"*int", "*myint"}, a \in Addrs}
    \cup {Val("*aType", FALSE, a, <<>>) : a \in Addrs}
    \cup {Val("[]int", FALSE, a, [i \in 1..n |-> IntMem(a + i - 1)]) : a \in Addrs, n \in 0..MaxLen}
    \cup {Val("[]float64", FALSE, a, [i \in 1..n |-> FloatMem(a + i - 1)]) : a \in Addrs, n \in 0..MaxLen}
    \cup {Val("map[int]int", FALSE, a, [i \in 1..(a \div 2) |-> IntMem(i)]) : a \in Addrs}
    \cup {Val("chan int", FALSE, a, [i \in 1..(a - 1) |-> IntMem(i)]) : a \in Addrs}
    \cup {Val("func()", FALSE, a, <<>>) : a \in Addrs}

Values == {UntypedNil} \cup Scalars \cup TypedNils \cup References

\* ------------------------------------------------------------ reflection
IsValid(v) == v.kind # "Invalid"

NilKinds == {"Chan", "Func", "Map", "Ptr", "Interface", "Slice", "UnsafePointer"}

\* reflect.Value.IsNil panics on the zero Value and on every other kind
IsNilPanics(v) == v.kind \notin NilKinds

IsNil(v) == v.isnil

LenKinds == {"Array", "Chan", "Map", "Slice", "String"}

\* reflect.Value.Len panics on every other kind
LenPanics(v) == v.kind \notin LenKinds

VLen(v) == Len(v.data)

TypeOf(v) == IF IsValid(v) THEN v.type ELSE "<nil>"

ElemEqual(ty, x, y) == IF ty \in FloatTypes THEN x = y /\ x # NaN ELSE x = y

DataEqual(ty, d1, d2) ==
    Len(d1) = Len(d2) /\ \A i \in 1..Len(d1) : ElemEqual(ty, d1[i], d2[i])

DeepEqual(x, y) ==
    IF ~IsValid(x) \/ ~IsValid(y) THEN IsValid(x) = IsValid(y)
    ELSE IF x.type # y.type THEN FALSE
    ELSE CASE x.kind = "Array" -> DataEqual(x.type, x.data, y.data)
           [] x.kind = "Slice" -> /\ x.isnil = y.isnil
                                  /\ Len(x.data) = Len(y.data)
                                  /\ (x.addr = y.addr \/ DataEqual(x.type, x.data, y.data))
           [] x.kind = "Ptr" -> \/ x.addr = y.addr
                                \/ /\ ~x.isnil
                                   /\ ~y.isnil
                                   /\ DataEqual(x.type, x.data, y.data)
           [] x.kind = "Map" -> /\ x.isnil = y.isnil
                                /\ Len(x.data) = Len(y.data)
                                /\ (x.addr = y.addr \/ DataEqual(x.type, x.data, y.data))
           [] x.kind = "Func" -> x.isnil /\ y.isnil
           [] x.kind = "Chan" -> x.addr = y.addr
           [] x.kind = "Struct" -> TRUE
           [] OTHER -> DataEqual(x.type, x.data, y.data)

isNilableNoSlice(v) ==
    v.kind \in {"Invalid", "Chan", "Func", "Map", "Ptr", "Interface"}

isNilableAll(v) == v.kind = v.kind

isNilable(v) ==
    v.kind \in {"Invalid", "Chan", "Func", "Map", "Ptr", "Interface", "Slice"}

\* ------------------------------------------------------------- messages
\* A Go string is a sequence of text pieces (their concatenation); a message
\* is a sequence of strings.
Verbs == {"%v", "%s", "%d", "%T"}

RECURSIVE Sprintf(_, _)
Sprintf(format, a) ==
    IF format = <<>> THEN <<>>
    ELSE IF Head(format) \in Verbs
         THEN IF a = <<>> THEN <<"%!(MISSING)">> \o Sprintf(Tail(format), a)
              ELSE <<Head(a)>> \o Sprintf(Tail(format), Tail(a))
         ELSE <<Head(format)>> \o Sprintf(Tail(format), a)

RECURSIVE SprintArgs(_)
SprintArgs(args) ==
    IF args = <<>> THEN <<>>
    ELSE IF Len(args) = 1 THEN Head(args)
    ELSE Head(args) \o <<" ">> \o SprintArgs(Tail(args))

Sprintln(args) == SprintArgs(args) \o <<"\n">>

\* operands as fmt prints them
FmtValue(v) == IF IsValid(v) THEN ToString(<<v.type, v.isnil, v.addr, v.data>>) ELSE "<nil>"
FmtType(v) == TypeOf(v)
FmtInt(n) == ToString(n)

messageMerged(msg, format, a) == msg \o <<Sprintf(format, a)>>

message(msg, format, a) ==
    IF Len(msg) > 0 THEN msg ELSE <<Sprintf(format, a)>>

Overrides == {<<>>, <<<<"custom">>>>, <<<<"%s">>, <<"a message">>>>}

\* --------------------------------------------------------------- tester
\* The tester of the package's tests records the last method called; log is
\* the sequence of the calls made on it (and of f inside Panic).
tt == [format |-> <<>>, method |-> ""]

Run0 == [escaped |-> FALSE, isNilOn |-> {}, lenOn |-> {}, log |-> <<>>, reported |-> <<>>,
         ret |-> FALSE, t |-> tt]

Helper(r) == [r EXCEPT !.log = Append(@, "Helper")]

Errorf(r, format) ==
    [r EXCEPT !.t = [format |-> format, method |-> "Errorf"], !.log = Append(@, "Errorf")]

Fatalf(r, format) ==
    [r EXCEPT !.t = [format |-> format, method |-> "Fatalf"], !.log = Append(@, "Fatalf")]

reportError(r, msg) == Errorf(Helper([r EXCEPT !.reported = msg]), Sprintln(msg))

Return(r, b) == [r EXCEPT !.ret = b]

\* ---------------------------------------------------------------- errors
\* An error is absent (the nil interface) or present with a text.
NoErr == [present |-> FALSE, text |-> ""]
Errors == {NoErr, [present |-> TRUE, text |-> "an error"], [present |-> TRUE, text |-> "EOF"]}

\* ---------------------------------------------------------------- checks
True(r, condition, msg) ==
    IF ~condition
    THEN Return(reportError(Helper(r), message(msg, <<"assert condition is not true">>, <<>>)), FALSE)
    ELSE Return(r, TRUE)

False(r, condition, msg) ==
    IF condition
    THEN Return(reportError(Helper(r), message(msg, <<"assert condition is not false">>, <<>>)), FALSE)
    ELSE Return(r, TRUE)

FatalNonFatal(r, condition, msg) ==
    IF ~condition
    THEN reportError(r, message(msg, <<"assert condition is not true">>, <<>>))
    ELSE r

Fatal(r, condition, msg) ==
    IF ~condition
    THEN LET m == message(msg, <<"assert condition is not true">>, <<>>)
         IN Fatalf(Helper([r EXCEPT !.reported = m]), Sprintln(m))
    ELSE r

FatalError(r, err, msg) ==
    IF err.present
    THEN LET m == message(msg, <<"error '", "%s", "' not expected">>, <<err.text>>)
         IN Fatalf(Helper([r EXCEPT !.reported = m]), Sprintln(m))
    ELSE r

Error(r, err, msg) ==
    IF ~err.present
    THEN Return(reportError(Helper(r), message(msg, <<"error expected but not found">>, <<>>)), FALSE)
    ELSE Return(r, TRUE)

NoError(r, err, msg) ==
    IF err.present
    THEN Return(reportError(Helper(r),
                message(msg, <<"error '", "%s", "' not expected">>, <<err.text>>)), FALSE)
    ELSE Return(r, TRUE)

\* The switch of Equals and NotEquals: hit is whether one of its cases is
\* taken, evals the values IsNil was evaluated on (the conditions
\* short-circuit from left to right).
SwitchEvals(v1, v2) ==
    (IF IsValid(v1) /\ ~IsValid(v2) THEN {v1} ELSE {})
    \cup (IF ~IsValid(v1) /\ IsValid(v2) THEN {v2} ELSE {})
    \cup (IF IsValid(v1) /\ IsValid(v2) /\ TypeOf(v1) = TypeOf(v2)
          THEN {v1} \cup (IF ~IsNilPanics(v1) /\ IsNil(v1) THEN {v2} ELSE {})
          ELSE {})

EqualsSwitchAnyType(v1, v2) ==
    \/ IsValid(v1) /\ ~IsValid(v2) /\ IsNil(v1)
    \/ ~IsValid(v1) /\ IsValid(v2) /\ IsNil(v2)
    \/ IsValid(v1) /\ IsValid(v2) /\ IsNil(v1) /\ IsNil(v2)

EqualsSwitch(v1, v2) ==
    \/ IsValid(v1) /\ ~IsValid(v2) /\ IsNil(v1)
    \/ ~IsValid(v1) /\ IsValid(v2) /\ IsNil(v2)
    \/ IsValid(v1) /\ IsValid(v2) /\ TypeOf(v1) = TypeOf(v2) /\ IsNil(v1) /\ IsNil(v2)

NotEqualsSwitchNoFirst(v1, v2) ==
    \/ ~IsValid(v1) /\ IsValid(v2) /\ IsNil(v2)
    \/ IsValid(v1) /\ IsValid(v2) /\ TypeOf(v1) = TypeOf(v2) /\ IsNil(v1) /\ IsNil(v2)

NotEqualsSwitch(v1, v2) ==
    \/ IsValid(v1) /\ ~IsValid(v2) /\ IsNil(v1)
    \/ ~IsValid(v1) /\ IsValid(v2) /\ IsNil(v2)
    \/ IsValid(v1) /\ IsValid(v2) /\ TypeOf(v1) = TypeOf(v2) /\ IsNil(v1) /\ IsNil(v2)

EqualsFail(r, expected, actual, msg) ==
    Return(reportError(Helper(r),
           message(msg, <<"'", "%v", "' and '", "%v", "' are not equal">>,
                   <<FmtValue(expected), FmtValue(actual)>>)), FALSE)

EqualsNoDeepEqual(r, expected, actual, msg) ==
    IF isNilable(expected) /\ isNilable(actual) /\ EqualsSwitch(expected, actual)
    THEN Return(r, TRUE)
    ELSE EqualsFail(r, expected, actual, msg)

Equals(r, expected, actual, msg) ==
    IF DeepEqual(expected, actual) THEN Return(r, TRUE)
    ELSE IF isNilable(expected) /\ isNilable(actual)
    THEN LET evals == SwitchEvals(expected, actual)
             r1 == [r EXCEPT !.isNilOn = evals]
         IN IF \E v \in evals : IsNilPanics(v) THEN [r1 EXCEPT !.escaped = TRUE]
            ELSE IF EqualsSwitch(expected, actual) THEN Return(r1, TRUE)
            ELSE EqualsFail(r1, expected, actual, msg)
    ELSE EqualsFail(r, expected, actual, msg)

NotEqualsFail(r, expected, actual, msg) ==
    Return(reportError(Helper(r),
           message(msg, <<"'", "%v", "' and '", "%v", "' are equal">>,
                   <<FmtValue(expected), FmtValue(actual)>>)), FALSE)

NotEqualsDeep(r, expected, actual, msg) ==
    IF DeepEqual(expected, actual) THEN NotEqualsFail(r, expected, actual, msg)
    ELSE Return(r, TRUE)

NotEqualsNoReturn(r, expected, actual, msg) ==
    IF isNilable(expected) /\ isNilable(actual) /\ NotEqualsSwitch(expected, actual)
    THEN NotEqualsDeep(NotEqualsFail(r, expected, actual, msg), expected, actual, msg)
    ELSE NotEqualsDeep(r, expected, actual, msg)

NotEquals(r, expected, actual, msg) ==
    IF isNilable(expected) /\ isNilable(actual)
    THEN LET evals == SwitchEvals(expected, actual)
             r1 == [r EXCEPT !.isNilOn = evals]
         IN IF \E v \in evals : IsNilPanics(v) THEN [r1 EXCEPT !.escaped = TRUE]
            ELSE IF NotEqualsSwitch(expected, actual)
                 THEN NotEqualsFail(r1, expected, actual, msg)
                 ELSE NotEqualsDeep(r1, expected, actual, msg)
    ELSE NotEqualsDeep(r, expected, actual, msg)

Nil(r, value, msg) ==
    LET evals == IF isNilable(value) /\ IsValid(value) THEN {value} ELSE {}
        r1 == [r EXCEPT !.isNilOn = evals]
        res == isNilable(value) /\ (~IsValid(value) \/ IsNil(value))
    IN IF \E v \in evals : IsNilPanics(v) THEN [r1 EXCEPT !.escaped = TRUE]
       ELSE IF ~res
       THEN Return(reportError(Helper(r1),
                   message(msg, <<"nil expected and found '", "%v", "'">>, <<FmtValue(value)>>)), FALSE)
       ELSE Return(r1, TRUE)

NotNil(r, value, msg) ==
    LET evals == IF isNilable(value) /\ IsValid(value) THEN {value} ELSE {}
        r1 == [r EXCEPT !.isNilOn = evals]
    IN IF \E v \in evals : IsNilPanics(v) THEN [r1 EXCEPT !.escaped = TRUE]
       ELSE IF isNilable(value) /\ (~IsValid(value) \/ IsNil(value))
       THEN Return(reportError(Helper(r1),
                   message(msg, <<"not nil expected and found '", "%v", "'">>, <<FmtValue(value)>>)), FALSE)
       ELSE Return(r1, TRUE)

LenSwitchKindsNoChan == {"Array", "Map", "Slice", "String"}

LenSwitchKinds == {"Array", "Chan", "Map", "Slice", "String"}

LenCheck(r, expected, value, msg) ==
    IF value.kind \in LenSwitchKinds
    THEN LET r1 == [r EXCEPT !.lenOn = {value}]
         IN IF LenPanics(value) THEN [r1 EXCEPT !.escaped = TRUE]
            ELSE IF VLen(value) # expected
            THEN Return(reportError(Helper(r1),
                        message(msg, <<"len '", "%d", "' expected and found '", "%d", "'">>,
                                <<FmtInt(expected), FmtInt(VLen(value))>>)), FALSE)
            ELSE Return(r1, TRUE)
    ELSE Return(reportError(Helper(r),
                message(msg, <<"cannot apply built-in function len to '", "%s", "' (", "%v", ")">>,
                        <<value.kind, FmtValue(value)>>)), FALSE)

\* f is what the passed function does; recovered is what recover() returns
\* in the deferred function.
Funcs == {"returns", "panics", "panicsNil"}

\* recover() returns the panic value. For panic(nil) it returns nil, or a
\* *runtime.PanicNilError when the build runs with the go1.21 semantics.
Recovered(f) ==
    CASE f = "returns" -> {"nil"}
      [] f = "panics" -> {"an error"}
      [] f = "panicsNil" -> {"nil", "PanicNilError"}

Panic(r, f, recovered, msg) ==
    LET r1 == [Helper(r) EXCEPT !.log = Append(@, "f")]
    IN IF recovered = "nil"
       THEN Return(reportError(Helper(r1), message(msg, <<"function did not panic">>, <<>>)), FALSE)
       ELSE Return(r1, TRUE)

Type(r, expected, value, msg) ==
    IF TypeOf(expected) = TypeOf(value) THEN Return(r, TRUE)
    ELSE Return(reportError(Helper(r),
                message(msg, <<"type '", "%T", "' expected and found '", "%T", "'">>,
                        <<FmtType(expected), FmtType(value)>>)), FALSE)

Strings == SeqsUpTo(1..2, MaxLen)

stringsHasPrefix(s, p) == Len(s) >= Len(p) /\ SubSeq(s, 1, Len(p)) = p

HasPrefix(r, s, p, msg) ==
    IF stringsHasPrefix(s, p) THEN Return(r, TRUE)
    ELSE Return(reportError(Helper(r),
                message(msg, <<"'", "%s", "' is not a prefix of '", "%s", "'">>,
                        <<ToString(p), ToString(s)>>)), FALSE)

\* ---------------------------------------------------------------- actions
Init ==
    /\ op = "none"
    /\ in = [msg |-> <<>>]
    /\ ret = FALSE
    /\ escaped = FALSE
    /\ t = tt
    /\ log = <<>>
    /\ reported = <<>>
    /\ isNilOn = {}
    /\ lenOn = {}

\* one call of a check on a fresh tester
Call(name, input, r) ==
    /\ op' = name
    /\ in' = input
    /\ ret' = r.ret
    /\ escaped' = r.escaped
    /\ t' = r.t
    /\ log' = r.log
    /\ reported' = r.reported
    /\ isNilOn' = r.isNilOn
    /\ lenOn' = r.lenOn

CallTrue ==
    /\ op = "none"
    /\ \E c \in BOOLEAN, m \in Overrides :
            Call("True", [condition |-> c, msg |-> m], True(Run0, c, m))

CallFalse ==
    /\ op = "none"
    /\ \E c \in BOOLEAN, m \in Overrides :
            Call("False", [condition |-> c, msg |-> m], False(Run0, c, m))

CallFatal ==
    /\ op = "none"
    /\ \E c \in BOOLEAN, m \in Overrides :
            Call("Fatal", [condition |-> c, msg |-> m], Fatal(Run0, c, m))

CallFatalError ==
    /\ op = "none"
    /\ \E e \in Errors, m \in Overrides :
            Call("FatalError", [err |-> e, msg |-> m], FatalError(Run0, e, m))

CallError ==
    /\ op = "none"
    /\ \E e \in Errors, m \in Overrides :
            Call("Error", [err |-> e, msg |-> m], Error(Run0, e, m))

CallNoError ==
    /\ op = "none"
    /\ \E e \in Errors, m \in Overrides :
            Call("NoError", [err |-> e, msg |-> m], NoError(Run0, e, m))

CallEquals ==
    /\ op = "none"
    /\ \E a \in Values, b \in Values, m \in Overrides :
            Call("Equals", [actual |-> b, expected |-> a, msg |-> m], Equals(Run0, a, b, m))

CallNotEquals ==
    /\ op = "none"
    /\ \E a \in Values, b \in Values, m \in Overrides :
            Call("NotEquals", [actual |-> b, expected |-> a, msg |-> m], NotEquals(Run0, a, b, m))

CallNil ==
    /\ op = "none"
    /\ \E v \in Values, m \in Overrides :
            Call("Nil", [msg |-> m, value |-> v], Nil(Run0, v, m))

CallNotNil ==
    /\ op = "none"
    /\ \E v \in Values, m \in Overrides :
            Call("NotNil", [msg |-> m, value |-> v], NotNil(Run0, v, m))

CallLen ==
    /\ op = "none"
    /\ \E n \in (-1)..(MaxLen + 1), v \in Values, m \in Overrides :
            Call("Len", [expected |-> n, msg |-> m, value |-> v], LenCheck(Run0, n, v, m))

CallPanic ==
    /\ op = "none"
    /\ \E f \in Funcs, m \in Overrides : \E rec \in Recovered(f) :
            Call("Panic", [f |-> f, msg |-> m, recovered |-> rec], Panic(Run0, f, rec, m))

CallType ==
    /\ op = "none"
    /\ \E a \in Values, b \in Values, m \in Overrides :
            Call("Type", [expected |-> a, msg |-> m, value |-> b], Type(Run0, a, b, m))

CallHasPrefix ==
    /\ op = "none"
    /\ \E s \in Strings, p \in Strings, m \in Overrides :
            Call("HasPrefix", [msg |-> m, p |-> p, s |-> s], HasPrefix(Run0, s, p, m))

\* the test goes on to its next case with a fresh tester: tt()
NewTester ==
    /\ op # "none"
    /\ op' = "none"
    /\ in' = [msg |-> <<>>]
    /\ ret' = FALSE
    /\ escaped' = FALSE
    /\ t' = tt
    /\ log' = <<>>
    /\ reported' = <<>>
    /\ isNilOn' = {}
    /\ lenOn' = {}

Next ==
    \/ NewTester
    \/ CallTrue
    \/ CallFalse
    \/ CallFatal
    \/ CallFatalError
    \/ CallError
    \/ CallNoError
    \/ CallEquals
    \/ CallNotEquals
    \/ CallNil
    \/ CallNotNil
    \/ CallLen
    \/ CallPanic
    \/ CallType
    \/ CallHasPrefix

Spec == Init /\ [][Next]_vars

\* ----------------------------------------------------------- properties
Count(name) == Cardinality({i \in DOMAIN log : log[i] = name})
ErrorfCalls == Count("Errorf")
FatalfCalls == Count("Fatalf")

BoolChecks == {"True", "False", "Error", "NoError", "Equals", "NotEquals", "Nil", "NotNil",
               "Len", "Panic", "Type", "HasPrefix"}

\* the nilable kinds and the typed nil of the specification
NilableKind(v) == v.kind \in {"Invalid", "Chan", "Func", "Map", "Ptr", "Interface", "Slice"}
TypedNil(v) == v.kind \in {"Chan", "Func", "Map", "Ptr", "Interface", "Slice"} /\ v.isnil

NilPtrInt == Val("*int", TRUE, 0, <<>>)
NilPtrMyint == Val("*myint", TRUE, 0, <<>>)

\* C1: Equals returns true exactly when the operands are deep equal, or one
\* is a typed nil and the other the untyped nil (either order), or both are
\* typed nils of the same concrete type.
C1_EqualsRelation ==
    op = "Equals" =>
        /\ ~escaped
        /\ ret <=> \/ DeepEqual(in.expected, in.actual)
                   \/ TypedNil(in.expected) /\ in.actual = UntypedNil
                   \/ in.expected = UntypedNil /\ TypedNil(in.actual)
                   \/ /\ TypedNil(in.expected)
                      /\ TypedNil(in.actual)
                      /\ in.expected.type = in.actual.type
        /\ (in.expected = NilPtrInt /\ in.actual = NilPtrMyint => ~ret)
        /\ (~NilableKind(in.expected) /\ in.actual = UntypedNil => ~ret)

C1_Witness ==
    op = "Equals" /\ in.expected = NilPtrInt /\ in.actual = UntypedNil /\ ret

\* C2: NotEquals(a, b) returns the negation of Equals(a, b) for every pair
\* of operands.
C2_NotEqualsNegatesEquals ==
    op = "NotEquals" =>
        /\ ~escaped
        /\ ret = ~Equals(Run0, in.expected, in.actual, in.msg).ret

C2_Witness ==
    op = "NotEquals" /\ in.expected = UntypedNil /\ TypedNil(in.actual) /\ ~ret

\* C3 as stated: Equals(v, v) returns true and makes no report for every
\* operand v, function values included.
C3_EqualsReflexive ==
    op = "Equals" /\ in.expected = in.actual => ret /\ ErrorfCalls = 0

\* a value in which a non-nil function or a NaN is compared
HasFuncOrNaN(v) ==
    \/ v.kind = "Func" /\ ~v.isnil
    \/ v.type \in FloatTypes /\ \E i \in DOMAIN v.data : v.data[i] = NaN

\* C3 amended: Equals(v, v) returns true and makes no report for every
\* operand v that holds no non-nil function value and no NaN.
C3_EqualsReflexiveAmended ==
    op = "Equals" /\ in.expected = in.actual /\ ~HasFuncOrNaN(in.expected) =>
        ~escaped /\ ret /\ ErrorfCalls = 0

C3_Witness ==
    /\ op = "Equals"
    /\ in.expected = in.actual
    /\ in.expected.kind = "Map"
    /\ ~in.expected.isnil
    /\ ret
    /\ ErrorfCalls = 0

\* C4: Nil returns true iff the value is of nilable kind and is the untyped
\* nil or has nil content; NotNil returns the negation of Nil, so it returns
\* true for every non-nilable value.
C4_NilNotNil ==
    /\ op = "Nil" =>
        /\ ~escaped
        /\ ret <=> NilableKind(in.value) /\ (in.value = UntypedNil \/ in.value.isnil)
        /\ (~NilableKind(in.value) => ~ret)
    /\ op = "NotNil" =>
        /\ ~escaped
        /\ ret = ~Nil(Run0, in.value, in.msg).ret
        /\ (~NilableKind(in.value) => ret)

C4_Witness ==
    op = "Nil" /\ in.value.kind = "Slice" /\ in.value.isnil /\ ret

\* C5: Panic invokes f once; if f panics, whatever the panic value, Panic
\* returns true without a report; if f returns, Panic returns false after
\* one non-fatal report, made after f returned, with the default message
\* "function did not panic".
C5_Panic ==
    op = "Panic" =>
        /\ Count("f") = 1
        /\ ~escaped
        /\ in.f \in {"panics", "panicsNil"} => ret /\ ErrorfCalls = 0 /\ FatalfCalls = 0
        /\ in.f = "returns" =>
            /\ ~ret
            /\ ErrorfCalls = 1
            /\ FatalfCalls = 0
            /\ \A i, j \in DOMAIN log : log[i] = "f" /\ log[j] = "Errorf" => i < j
            /\ (in.msg = <<>> => reported = <<<<"function did not panic">>>>)

\* C6: Fatal and FatalError make no reporting call when the predicate holds
\* and call the fatal path once, never the non-fatal one, when it fails.
C6_FatalPath ==
    op \in {"Fatal", "FatalError"} =>
        LET holds == IF op = "Fatal" THEN in.condition ELSE ~in.err.present
        IN /\ holds => ErrorfCalls = 0 /\ FatalfCalls = 0 /\ t.method = ""
           /\ ~holds => ErrorfCalls = 0 /\ FatalfCalls = 1 /\ t.method = "Fatalf"

C6_Witness ==
    op = "Fatal" /\ ~in.condition /\ FatalfCalls = 1 /\ t.method = "Fatalf"

\* C7: Len returns true iff the value's kind is array, channel, map, slice
\* or string and its length equals expected; a different length reports the
\* length mismatch, every other kind (the untyped nil too) reports "cannot
\* apply len", and both failures return false.
C7_Len ==
    op = "Len" =>
        LET hasLen == in.value.kind \in {"Array", "Chan", "Map", "Slice", "String"}
        IN /\ ~escaped
           /\ ret <=> hasLen /\ Len(in.value.data) = in.expected
           /\ ~ret => ErrorfCalls = 1
           /\ ~ret /\ in.msg = <<>> /\ hasLen => reported[1][1] = "len '"
           /\ ~ret /\ in.msg = <<>> /\ ~hasLen =>
                  reported[1][1] = "cannot apply built-in function len to '"
           /\ (in.value.kind = "Slice" /\ in.value.isnil /\ in.expected = 0 => ret)
           /\ (in.value = UntypedNil => ~ret)

C7_Witness ==
    op = "Len" /\ in.value.kind = "Chan" /\ ~in.value.isnil /\ in.expected = 1 /\ ret

\* the formatted default message of each check
DefaultMessage ==
    CASE op \in {"True", "Fatal"} -> <<"assert condition is not true">>
      [] op = "False" -> <<"assert condition is not false">>
      [] op = "Error" -> <<"error expected but not found">>
      [] op \in {"NoError", "FatalError"} -> <<"error '", in.err.text, "' not expected">>
      [] op = "Equals" -> <<"'", FmtValue(in.expected), "' and '", FmtValue(in.actual),
                            "' are not equal">>
      [] op = "NotEquals" -> <<"'", FmtValue(in.expected), "' and '", FmtValue(in.actual),
                               "' are equal">>
      [] op = "Nil" -> <<"nil expected and found '", FmtValue(in.value), "'">>
      [] op = "NotNil" -> <<"not nil expected and found '", FmtValue(in.value), "'">>
      [] op = "Len" ->
            IF in.value.kind \in {"Array", "Chan", "Map", "Slice", "String"}
            THEN <<"len '", FmtInt(in.expected), "' expected and found '",
                   FmtInt(Len(in.value.data)), "'">>
            ELSE <<"cannot apply built-in function len to '", in.value.kind, "' (",
                   FmtValue(in.value), ")">>
      [] op = "Panic" -> <<"function did not panic">>
      [] op = "Type" -> <<"type '", FmtType(in.expected), "' expected and found '",
                          FmtType(in.value), "'">>
      [] op = "HasPrefix" -> <<"'", ToString(in.p), "' is not a prefix of '", ToString(in.s), "'">>

\* C8: the message a check reports is exactly the override when the caller
\* gave one, and the one-element sequence of the formatted default message
\* when the override is empty.
C8_MessageResolution ==
    ErrorfCalls + FatalfCalls > 0 =>
        /\ in.msg # <<>> => reported = in.msg
        /\ in.msg = <<>> => reported = <<DefaultMessage>>
        /\ t.format = Sprintln(reported)

C8_Witness ==
    /\ op = "Equals"
    /\ in.msg = <<<<"%s">>, <<"a message">>>>
    /\ ErrorfCalls = 1
    /\ reported = in.msg

\* C9: a boolean check returns false iff it made exactly one non-fatal
\* report, returns true iff it made no report, never reports twice and never
\* calls the fatal method.
C9_OneReportPerFailure ==
    op \in BoolChecks =>
        /\ ~escaped
        /\ ~ret <=> ErrorfCalls = 1
        /\ ret <=> ErrorfCalls = 0
        /\ FatalfCalls = 0

C9_Witness ==
    /\ op = "NotEquals"
    /\ in.expected = NilPtrInt
    /\ in.actual = NilPtrInt
    /\ ~ret
    /\ ErrorfCalls = 1

\* C10: no check panics: IsNil is only evaluated on a valid value of kind
\* channel, function, map, pointer, interface or slice, and the length is
\* only taken of an array, channel, map, slice or string.
C10_NoPanic ==
    /\ ~escaped
    /\ \A v \in isNilOn :
          IsValid(v) /\ v.kind \in {"Chan", "Func", "Map", "Ptr", "Interface", "Slice"}
    /\ \A v \in lenOn : v.kind \in {"Array", "Chan", "Map", "Slice", "String"}

C10_Witness ==
    op = "Equals" /\ Cardinality(isNilOn) = 2 /\ ~escaped /\ ~ret
====
